---- MODULE Spec2Model ----
(***************************************************************************)
(* Batch bookkeeping of auto_mind.supervised._batch_handler:               *)
(* BatchHandler._handle_main and GeneralBatchHandler (skip, run,           *)
(* verify_early_stop) over a persistent result with a resumable cursor.    *)
(*                                                                         *)
(* Optional values (Python's None) are sequences: <<>> is None and <<v>>   *)
(* is the value v.  Floats are modelled as exact numbers: integers where   *)
(* the code only adds and multiplies, fractions [n, d] where it divides.   *)
(***************************************************************************)
EXTENDS Integers, Sequences, FiniteSets, TLC

\* ------------------------------------------------------------------ bounds
MaxBatch == 3
MaxCalls == 3
MaxRestarts == 1

\* ------------------------------------------------------------ optional values
None == <<>>
Some(v) == <<v>>
IsNone(o) == o = <<>>
Val(o) == o[1]

\* ------------------------------------------------------------------ fractions
RECURSIVE Gcd(_, _)
Gcd(a, b) == IF b = 0 THEN a ELSE Gcd(b, a % b)

Frac(n, d) == IF n = 0 THEN [n |-> 0, d |-> 1]
              ELSE [n |-> n \div Gcd(n, d), d |-> d \div Gcd(n, d)]
FracAdd(x, y) == Frac(x.n * y.d + y.n * x.d, x.d * y.d)
FracDiv(x, k) == Frac(x.n, x.d * k)
Zero == Frac(0, 1)

\* --------------------------------------------------------------- input sets
Batches == 1..MaxBatch
Amounts == {1, 2}
Losses == {3}
Accuracies == {None, Some(1)}
TimeDiffs == {2}
Every == {None, Some(2)}
TotalBatches == {Some(MaxBatch)}

VARIABLES
    params,     \* GeneralBatchHandlerParams: save_every, print_every, metric_every
    early_stopper,   \* TRUE when an EarlyStopper is configured
    metrics_handler, \* TRUE when a MetricsHandler is configured
    h,          \* the handler's fields (totals and window accumulators)
    results,    \* the persistent result behind get_results / update_results
    added,      \* added[b]: what the calls for batch b that were not skipped carried
    lastFed,    \* the batch index of the last run call on the current handler
    calls,      \* the number of run calls so far that were not skipped
    inOrder,    \* every handler so far was fed 1, 2, 3, ... from the start
    seen,       \* the highest batch index fed so far to any handler
    ref,        \* a handler fed every batch once, in order, and never discarded
    restarts,   \* handlers discarded and rebuilt from the persisted result
    ev,         \* the last call: operation, arguments, callbacks invoked
    kind        \* "train" for a TrainBatchHandler, "test" for a TestBatchHandler

vars == <<params, early_stopper, metrics_handler, h, results, added, lastFed,
          calls, inOrder, seen, ref, restarts, ev, kind>>

\* The metrics of a batch are what the MetricsHandler defines for it; without a
\* handler they are never read.
BatchMetrics == IF metrics_handler THEN {Some(1)} ELSE {None}

\* The data of one batch: what run receives for it besides batch, total_batch, last.
BatchData == [amount : Amounts, loss : Losses, accuracy : Accuracies,
              time_diff : TimeDiffs, batch_metrics : BatchMetrics]

\* ----------------------------------------------------------- MetricsHandler
\* MetricsHandler.add is abstract; the handler modelled here sums its metrics.
MetricsAdd(current, metrics) ==
    Some((IF IsNone(current) THEN 0 ELSE Val(current))
         + (IF IsNone(metrics) THEN 0 ELSE Val(metrics)))

\* ------------------------------------------------------------- BatchHandler
\* A handler constructed without a cursor: BatchHandler.__init__ with cursor None
\* and the window fields of GeneralBatchHandler.__init__.
FreshHandler ==
    [amount |-> 0,
     total_loss |-> 0,
     total_accuracy |-> Some(0),
     total_time |-> 0,
     total_metrics |-> None,
     print_loss |-> Zero,
     print_accuracy |-> Some(0),
     print_count |-> 0,
     print_metrics |-> None,
     metric_loss |-> Zero,
     metric_accuracy |-> Some(0),
     metric_count |-> 0,
     metric_time |-> 0,
     metrics |-> None]

\* Mutant: the cursor is not read, a resumed handler starts from zero.
NewHandlerIgnoringCursor(cursor) == FreshHandler

\* BatchHandler.__init__: the totals are taken from the cursor when there is one.
NewHandler(cursor) ==
    IF IsNone(cursor)
    THEN FreshHandler
    ELSE [FreshHandler EXCEPT
            !.amount = Val(cursor).amount,
            !.total_loss = Val(cursor).total_loss,
            !.total_accuracy = Val(cursor).total_accuracy,
            !.total_time = Val(cursor).total_time,
            !.total_metrics = Val(cursor).total_metrics]

\* Mutant: the amount is assigned, not accumulated.
HandleMainAssigningAmount(s, a) ==
    [s EXCEPT
        !.amount = a.amount,
        !.total_loss = @ + a.loss,
        !.total_accuracy =
            IF ~IsNone(a.accuracy) /\ ~IsNone(@)
            THEN Some(Val(@) + Val(a.accuracy) * a.amount)
            ELSE None,
        !.total_time = @ + a.time_diff,
        !.total_metrics =
            IF metrics_handler /\ ~IsNone(a.batch_metrics) /\ Val(a.batch_metrics) # 0
            THEN MetricsAdd(@, a.batch_metrics)
            ELSE @]

\* Mutant: the loss is weighted by the amount, as the accuracy is.
HandleMainWeightingLoss(s, a) ==
    [s EXCEPT
        !.amount = @ + a.amount,
        !.total_loss = @ + a.loss * a.amount,
        !.total_accuracy =
            IF ~IsNone(a.accuracy) /\ ~IsNone(@)
            THEN Some(Val(@) + Val(a.accuracy) * a.amount)
            ELSE None,
        !.total_time = @ + a.time_diff,
        !.total_metrics =
            IF metrics_handler /\ ~IsNone(a.batch_metrics) /\ Val(a.batch_metrics) # 0
            THEN MetricsAdd(@, a.batch_metrics)
            ELSE @]

\* BatchHandler._handle_main
HandleMain(s, a) ==
    [s EXCEPT
        !.amount = @ + a.amount,
        !.total_loss = @ + a.loss,
        !.total_accuracy =
            IF ~IsNone(a.accuracy) /\ ~IsNone(@)
            THEN Some(Val(@) + Val(a.accuracy) * a.amount)
            ELSE None,
        !.total_time = @ + a.time_diff,
        !.total_metrics =
            IF metrics_handler /\ ~IsNone(a.batch_metrics) /\ Val(a.batch_metrics) # 0
            THEN MetricsAdd(@, a.batch_metrics)
            ELSE @]

\* ------------------------------------------------------ GeneralBatchHandler
\* Mutant: the persisted batch itself is not skipped.
SkipOffByOne(res, batch) == batch < res.batch

\* GeneralBatchHandler.skip, over what get_results returns
Skip(res, batch) == batch < res.batch + 1

\* run, lines 290-319: the print and metric windows take the batch in.
AddToWindows(s, a) ==
    [s EXCEPT
        !.print_loss = FracAdd(@, Frac(a.loss, a.amount)),
        !.print_accuracy =
            IF ~IsNone(a.accuracy) /\ ~IsNone(@)
            THEN Some(Val(@) + Val(a.accuracy)) ELSE None,
        !.print_count = @ + 1,
        !.metric_loss = FracAdd(@, Frac(a.loss, a.amount)),
        !.metric_accuracy =
            IF ~IsNone(a.accuracy) /\ ~IsNone(@)
            THEN Some(Val(@) + Val(a.accuracy)) ELSE None,
        !.metric_time = @ + a.time_diff,
        !.metric_count = @ + 1,
        !.print_metrics = IF metrics_handler THEN MetricsAdd(@, a.batch_metrics) ELSE None,
        !.metrics = IF metrics_handler THEN MetricsAdd(@, a.batch_metrics) ELSE None]

DoPrint(batch, last) ==
    ~IsNone(params.print_every) /\ (last \/ batch % Val(params.print_every) = 0)
DoSave(batch, last) ==
    ~IsNone(params.save_every) /\ (last \/ batch % Val(params.save_every) = 0)
\* Mutant: the persistent result is updated only when the metrics are defined.
DoUpdateOnlyForMetrics(batch, last) ==
    \/ IsNone(params.metric_every)
    \/ batch % Val(params.metric_every) = 0

\* Mutant: the last batch does not update the persistent result by itself.
DoUpdateIgnoringLast(batch, last) ==
    \/ DoSave(batch, last)
    \/ IsNone(params.metric_every)
    \/ batch % Val(params.metric_every) = 0

\* run, lines 334-336
DoUpdate(batch, last) ==
    \/ DoSave(batch, last)
    \/ last
    \/ IsNone(params.metric_every)
    \/ batch % Val(params.metric_every) = 0
DoMetric(batch, last) == DoUpdate(batch, last) /\ ~IsNone(params.metric_every)

\* run, lines 359-362
ResetPrint(s) ==
    [s EXCEPT !.print_count = 0, !.print_loss = Zero,
              !.print_accuracy = Some(0), !.print_metrics = None]

\* run, lines 393-396 (the metric time is not among the fields reset)
ResetMetric(s) ==
    [s EXCEPT !.metric_count = 0, !.metric_loss = Zero,
              !.metric_accuracy = Some(0), !.metrics = None]

\* Mutant: the cursor takes the time of the metric window for the total time.
ExecutionCursorWithWindowTime(s) ==
    [amount |-> s.amount, total_loss |-> s.total_loss,
     total_accuracy |-> s.total_accuracy, total_metrics |-> s.total_metrics,
     total_time |-> s.metric_time]

\* run, lines 367-372
ExecutionCursor(s) ==
    [amount |-> s.amount, total_loss |-> s.total_loss,
     total_accuracy |-> s.total_accuracy, total_metrics |-> s.total_metrics,
     total_time |-> s.total_time]

\* `x or []` of a list that may be None
OrEmpty(l) == IF IsNone(l) THEN <<>> ELSE Val(l)

\* run, lines 365-389: s is the handler after AddToWindows
MainResult(res, s, batch, total_batch, last) ==
    LET base == [res EXCEPT !.batch = batch,
                            !.total_batch = total_batch,
                            !.cursor = Some(ExecutionCursor(s))]
    IN  IF DoMetric(batch, last)
        THEN [base EXCEPT
                !.last_epoch_accuracies =
                    Some(IF ~IsNone(s.metric_accuracy)
                         THEN Append(OrEmpty(@),
                                 <<batch, Frac(Val(s.metric_accuracy), s.metric_count)>>)
                         ELSE OrEmpty(@)),
                !.last_epoch_losses =
                    Some(Append(OrEmpty(@),
                                <<batch, FracDiv(s.metric_loss, s.metric_count)>>)),
                !.last_epoch_times =
                    Some(Append(OrEmpty(@), <<batch, s.metric_time>>)),
                !.last_epoch_metrics =
                    Some(Append(OrEmpty(@), <<batch, s.metrics>>))]
        ELSE base

\* update_results as TrainBatchHandler defines it: every field is stored.
UpdateResults(store, main_result) == main_result

\* update_results as TestBatchHandler defines it: batch, total_batch, the cursor,
\* the accuracies, the losses and the times are stored; the metrics are not.
TestUpdateResults(store, main_result) ==
    [store EXCEPT
        !.batch = main_result.batch,
        !.total_batch = main_result.total_batch,
        !.cursor = main_result.cursor,
        !.last_epoch_accuracies = main_result.last_epoch_accuracies,
        !.last_epoch_losses = main_result.last_epoch_losses,
        !.last_epoch_times = main_result.last_epoch_times]

\* The callbacks a processed run call invokes, in order.
Callbacks(batch, last) ==
    (IF DoPrint(batch, last) THEN <<"get_batch_info">> ELSE <<>>)
    \o (IF DoUpdate(batch, last) THEN <<"update_results">> ELSE <<>>)
    \o (IF DoSave(batch, last) THEN <<"save_state">> ELSE <<>>)

NoResults ==
    [batch |-> 0, total_batch |-> None, cursor |-> None,
     last_epoch_accuracies |-> None, last_epoch_losses |-> None,
     last_epoch_times |-> None, last_epoch_metrics |-> None]

NothingAdded == [amount |-> 0, loss |-> 0, time_diff |-> 0, accuracy |-> 0,
                 calls |-> 0, nones |-> 0]

\* The state after construction, whichever the class of the handler.
Constructed ==
    /\ params \in [save_every : Every, print_every : Every, metric_every : Every]
    /\ early_stopper \in BOOLEAN
    /\ metrics_handler \in BOOLEAN
    /\ results = NoResults
    /\ h = NewHandler(results.cursor)
    /\ added = [b \in Batches |-> NothingAdded]
    /\ lastFed = 0
    /\ calls = 0
    /\ inOrder = TRUE
    /\ seen = 0
    /\ ref = FreshHandler
    /\ restarts = 0
    /\ ev = [op |-> "init", batch |-> 0, last |-> FALSE, skipped |-> FALSE,
             calls |-> <<>>, check |-> FALSE, raised |-> FALSE]

\* A TrainBatchHandler (with batch_interval set) over a TrainResult
Init == Constructed /\ kind = "train"

\* A TestBatchHandler over a TestResult
InitTest == Constructed /\ kind = "test"

\* What a call for a batch that is not skipped adds to the record of the batch.
Record(r, a) ==
    [amount |-> r.amount + a.amount,
     loss |-> r.loss + a.loss,
     time_diff |-> r.time_diff + a.time_diff,
     accuracy |-> r.accuracy + (IF IsNone(a.accuracy) THEN 0 ELSE Val(a.accuracy)),
     calls |-> r.calls + 1,
     nones |-> r.nones + (IF IsNone(a.accuracy) THEN 1 ELSE 0)]

\* GeneralBatchHandler.run(batch, total_batch, amount, last, loss, accuracy,
\* time_diff, batch_metrics)
Run(batch, a, total_batch, last) ==
    /\ Skip(results, batch) \/ calls < MaxCalls
    /\ calls' = IF Skip(results, batch) THEN calls ELSE calls + 1
    /\ lastFed' = batch
    /\ inOrder' = (inOrder /\ batch = lastFed + 1)
    /\ seen' = IF batch > seen THEN batch ELSE seen
    /\ ref' = IF inOrder' /\ batch > seen THEN HandleMain(ref, a) ELSE ref
    /\ UNCHANGED <<params, early_stopper, metrics_handler, restarts, kind>>
    /\ IF Skip(results, batch)
       THEN /\ UNCHANGED <<h, results, added>>
            /\ ev' = [op |-> "run", batch |-> batch, last |-> last, skipped |-> TRUE,
                      calls |-> <<>>, check |-> FALSE, raised |-> FALSE]
       ELSE LET s1 == AddToWindows(HandleMain(h, a), a)
                s2 == IF DoPrint(batch, last) THEN ResetPrint(s1) ELSE s1
                s3 == IF DoUpdate(batch, last) THEN ResetMetric(s2) ELSE s2
            IN  /\ h' = s3
                /\ results' =
                      IF ~DoUpdate(batch, last) THEN results
                      ELSE IF kind = "test"
                      THEN TestUpdateResults(results,
                               MainResult(results, s1, batch, total_batch, last))
                      ELSE UpdateResults(results,
                               MainResult(results, s1, batch, total_batch, last))
                /\ added' = [added EXCEPT ![batch] = Record(@, a)]
                /\ ev' = [op |-> "run", batch |-> batch, last |-> last,
                          skipped |-> FALSE, calls |-> Callbacks(batch, last),
                          check |-> FALSE, raised |-> FALSE]

\* Mutant: an early stopper aborts whatever its check returns.
RaisesWithoutCheck(check) == early_stopper

\* verify_early_stop raises AbortedException; check is what EarlyStopper.check()
\* returns.
Raises(check) == early_stopper /\ check

VerifyEarlyStop(check) ==
    /\ ev' = [op |-> "verify_early_stop", batch |-> 0, last |-> FALSE,
              skipped |-> FALSE, calls |-> <<>>, check |-> check,
              raised |-> Raises(check)]
    /\ UNCHANGED <<params, early_stopper, metrics_handler, h, results, added,
                   lastFed, calls, inOrder, seen, ref, restarts, kind>>

\* Right after a save_state call the handler is discarded and a new one is
\* constructed over the persisted result (GeneralBatchHandler.__init__).
Restart ==
    /\ restarts < MaxRestarts
    /\ ev.op = "run" /\ ev.calls # <<>> /\ ev.calls[Len(ev.calls)] = "save_state"
    /\ restarts' = restarts + 1
    /\ h' = NewHandler(results.cursor)
    /\ lastFed' = 0
    /\ ev' = [op |-> "restart", batch |-> 0, last |-> FALSE, skipped |-> FALSE,
              calls |-> <<>>, check |-> FALSE, raised |-> FALSE]
    /\ UNCHANGED <<params, early_stopper, metrics_handler, results, added, calls,
                   inOrder, seen, ref, kind>>

\* The loop feeds the batches in order and may feed a batch again; only the final
\* batch of the epoch can be flagged as the last one.
NextBatches == {b \in Batches : IF lastFed = 0 THEN b = 1
                                ELSE b \in {lastFed, lastFed + 1}}
LastFlags(batch) == IF batch = MaxBatch THEN BOOLEAN ELSE {FALSE}

\* A skipped call returns before it reads its other arguments: one choice of
\* them stands for all.  Without an early stopper check() is never called.
DataFor(batch) == IF Skip(results, batch)
                  THEN {CHOOSE a \in BatchData : TRUE}
                  ELSE BatchData
Checks == IF early_stopper THEN BOOLEAN ELSE {FALSE}

Next ==
    \/ \E batch \in NextBatches, total_batch \in TotalBatches :
          \E a \in DataFor(batch), last \in LastFlags(batch) :
             Run(batch, a, total_batch, last)
    \/ \E check \in Checks : VerifyEarlyStop(check)
    \/ Restart

Spec == Init /\ [][Next]_vars

SpecTest == InitTest /\ [][Next]_vars

\* ---------------------------------------------------------------- claims
RECURSIVE SumTo(_, _)
SumTo(F, n) == IF n = 0 THEN 0 ELSE F[n] + SumTo(F, n - 1)

Totals(s) == <<s.amount, s.total_loss, s.total_time, s.total_accuracy>>
Called(name) == \E i \in 1..Len(ev.calls) : ev.calls[i] = name
Processed == ev.op = "run" /\ ~ev.skipped

\* C1: when every handler was fed the batches in order from batch 1, a handler
\* constructed over the result persisted at a save_state call and fed all the
\* batches again ends with the amount, total_loss, total_time and total_accuracy
\* of one handler that processed them without interruption.
C1_ResumedEqualsUninterrupted ==
    (inOrder /\ seen > 0 /\ lastFed = seen) => Totals(h) = Totals(ref)

\* A resumed handler skipped the persisted batches and processed a later one.
C1_Witness ==
    /\ restarts > 0 /\ inOrder /\ lastFed = seen
    /\ Processed /\ h.amount > Val(results.cursor).amount

\* C2: once the cursor is written, its amount, total_loss and total_time are the
\* sums over the processed batches whose index is at most results.batch.
C2_CursorIsTotalsAtBatch ==
    ~IsNone(results.cursor) =>
        /\ Val(results.cursor).amount =
              SumTo([b \in Batches |-> added[b].amount], results.batch)
        /\ Val(results.cursor).total_loss =
              SumTo([b \in Batches |-> added[b].loss], results.batch)
        /\ Val(results.cursor).total_time =
              SumTo([b \in Batches |-> added[b].time_diff], results.batch)

\* A batch was processed after the last update of the cursor, by a resumed handler
\* or by the first one.
C2_Witness ==
    /\ ~IsNone(results.cursor) /\ Processed /\ ev.batch > results.batch
    /\ h.amount > Val(results.cursor).amount

\* C3: on one handler the amount, total_loss and total_time never decrease, and
\* neither do those of the persisted cursor from one update to the next.
C3_TotalsNeverDecrease ==
    [][restarts' = restarts =>
        /\ h'.amount >= h.amount
        /\ h'.total_loss >= h.total_loss
        /\ h'.total_time >= h.total_time
        /\ (~IsNone(results.cursor) =>
              /\ ~IsNone(results'.cursor)
              /\ Val(results'.cursor).amount >= Val(results.cursor).amount
              /\ Val(results'.cursor).total_loss >= Val(results.cursor).total_loss
              /\ Val(results'.cursor).total_time >= Val(results.cursor).total_time)]_vars

\* The cursor was updated a second time, with larger totals than the first time.
C3_Witness ==
    /\ Processed /\ Called("update_results")
    /\ Len(OrEmpty(results.last_epoch_times)) >= 2
    /\ Val(results.cursor).amount = h.amount

\* C4: skip(b) is True exactly for the batches whose amount and loss run has
\* added to the totals.
C4_SkipIffProcessed ==
    \A b \in Batches : Skip(results, b) <=> added[b].calls > 0

\* C5: on a handler constructed without a cursor the amount, total_loss and
\* total_time are the sums of the amount, loss and time_diff arguments of the
\* run calls that were not skipped.
C5_TotalsAreSumsOfProcessed ==
    restarts = 0 =>
        /\ h.amount = SumTo([b \in Batches |-> added[b].amount], MaxBatch)
        /\ h.total_loss = SumTo([b \in Batches |-> added[b].loss], MaxBatch)
        /\ h.total_time = SumTo([b \in Batches |-> added[b].time_diff], MaxBatch)

\* A call was skipped on a handler constructed without a cursor, after others
\* were processed.
C5_Witness ==
    restarts = 0 /\ ev.op = "run" /\ ev.skipped /\ h.amount > 0

\* C6: verify_early_stop raises exactly when an early stopper is configured and
\* its check returns True, and changes neither the handler nor the results.
C6_VerifyEarlyStop ==
    [][ev'.op = "verify_early_stop" =>
        /\ ev'.raised <=> (early_stopper /\ ev'.check)
        /\ h' = h
        /\ results' = results]_vars

\* verify_early_stop raised on a handler that has processed a batch.
C6_Witness ==
    ev.op = "verify_early_stop" /\ ev.raised /\ h.amount > 0

\* C7: a processed run call prints exactly when print_every is set, the batch is
\* a multiple of it and it is not the last batch.
C7_PrintsEveryButNotOnLast ==
    Processed =>
        (Called("get_batch_info") <=>
            /\ ~IsNone(params.print_every)
            /\ ~ev.last
            /\ ev.batch % Val(params.print_every) = 0)

\* C8: a processed run call calls save_state exactly when save_every is set, the
\* batch is a multiple of it and it is not the last batch.
C8_SavesEveryButNotOnLast ==
    Processed =>
        (Called("save_state") <=>
            /\ ~IsNone(params.save_every)
            /\ ~ev.last
            /\ ev.batch % Val(params.save_every) = 0)

\* C9: after run calls that were not skipped and all carried an accuracy,
\* total_accuracy is the mean of their accuracy arguments.
C9_TotalAccuracyIsMean ==
    LET n == SumTo([b \in Batches |-> added[b].calls], MaxBatch)
        nones == SumTo([b \in Batches |-> added[b].nones], MaxBatch)
        sum == SumTo([b \in Batches |-> added[b].accuracy], MaxBatch)
    IN  (restarts = 0 /\ n > 0 /\ nones = 0) =>
            /\ ~IsNone(h.total_accuracy)
            /\ Val(h.total_accuracy) * n = sum

\* C10: a run call whose batch is at most the persisted results.batch changes
\* neither the handler's totals and windows nor the results, and invokes no
\* callback.
C10_SkippedRunChangesNothing ==
    [][(ev'.op = "run" /\ ev'.batch <= results.batch) =>
        /\ h' = h
        /\ results' = results
        /\ ev'.calls = <<>>]_vars

\* A call for the persisted batch itself was skipped.
C10_Witness ==
    ev.op = "run" /\ ev.skipped /\ ev.batch = results.batch /\ h.amount > 0

\* The position of the first call of a callback in the last run call, 0 if none.
FirstCall(name) ==
    IF Called(name)
    THEN CHOOSE i \in 1..Len(ev.calls) :
            ev.calls[i] = name /\ \A j \in 1..(i - 1) : ev.calls[j] # name
    ELSE 0

\* C11: a run call that calls save_state has called update_results before it, so
\* what is saved has the batch being processed as its batch and the handler's
\* amount, total_loss, total_accuracy, total_time and total_metrics as its cursor.
C11_UpdatedBeforeSaved ==
    (ev.op = "run" /\ Called("save_state")) =>
        /\ Called("update_results")
        /\ FirstCall("update_results") < FirstCall("save_state")
        /\ results.batch = ev.batch
        /\ results.cursor = Some(ExecutionCursor(h))

\* save_state was called on a batch that is a multiple of save_every and not the
\* last one, after earlier batches were processed.
C11_Witness ==
    /\ ev.op = "run" /\ Called("save_state") /\ ~ev.last
    /\ ev.batch > 1 /\ h.amount > 1

CalledIn(cs, name) == \E i \in 1..Len(cs) : cs[i] = name

\* C12: a run call that is not skipped updates the persistent result (batch,
\* total_batch, cursor) exactly when a save is due, or last is True, or
\* metric_every is None, or the batch is a multiple of metric_every; any other
\* such call leaves the persistent result as it was while the totals advance.
C12_UpdatesExactlyWhenDue ==
    [][(ev'.op = "run" /\ ~ev'.skipped) =>
        LET due == \/ /\ ~IsNone(params.save_every)
                      /\ ev'.batch % Val(params.save_every) = 0
                   \/ ev'.last
                   \/ IsNone(params.metric_every)
                   \/ ev'.batch % Val(params.metric_every) = 0
        IN  /\ due =>
                /\ CalledIn(ev'.calls, "update_results")
                /\ results'.batch = ev'.batch
                /\ results'.total_batch \in TotalBatches
                /\ results'.cursor = Some(ExecutionCursor(h'))
            /\ ~due =>
                /\ ~CalledIn(ev'.calls, "update_results")
                /\ results' = results
                /\ h'.amount > h.amount
                /\ h'.total_loss >= h.total_loss
                /\ h'.total_time >= h.total_time
                /\ Totals(h') # Totals(h)]_vars

\* A batch was processed without an update, after an earlier batch had written
\* the cursor.
C12_Witness ==
    /\ Processed /\ ~Called("update_results")
    /\ ~IsNone(results.cursor) /\ h.amount > Val(results.cursor).amount

HasEntry(series, batch) ==
    \E i \in 1..Len(OrEmpty(series)) : OrEmpty(series)[i][1] = batch

\* C13: with metric_every set and last_epoch_metrics None at the start, after a
\* run call that records metrics the result's last_epoch_metrics has an entry
\* for that batch, for a TestBatchHandler as for a TrainBatchHandler.
C13_MetricsRecorded ==
    (Processed /\ ~IsNone(params.metric_every) /\ Called("update_results")) =>
        HasEntry(results.last_epoch_metrics, ev.batch)

====
